---- MODULE Spec2Model ----
(***************************************************************************)
(* Bearer-token verification of the language-learning API                  *)
(* (app/core/auth.py, class VerifyToken).                                  *)
(*                                                                         *)
(* VerifyToken.verify is a plain synchronous method called from the async  *)
(* dependency get_current_user_id, so one call runs to completion before   *)
(* the next one starts; the issuer endpoints and the clock are the         *)
(* environment and move between its steps (a key-set fetch is a blocking   *)
(* network call).                                                          *)
(*                                                                         *)
(* The key handling itself is PyJWT's (jwt.decode, jwt.PyJWKClient); the   *)
(* operators FetchData, GetSigningKey and DecodeVerified below state what  *)
(* those library calls do at the call sites of auth.py:                    *)
(*   - PyJWKClient(uri) opens no connection; the client keeps the last     *)
(*     fetched JWK set (cache_jwk_set=True, lifespan 300 s);               *)
(*   - get_signing_key looks the kid up in the kept set (or fetches when   *)
(*     nothing is kept) and, on a miss, fetches once more with             *)
(*     refresh=True before raising PyJWKClientError;                       *)
(*   - fetch_data stores the fetched set, or clears the kept one when the  *)
(*     fetch raised.                                                       *)
(***************************************************************************)
EXTENDS Naturals, Sequences, FiniteSets, Bags

\* Highest value of the clock and of a token's exp claim.
MaxTime == 1

\* The deployment's identity provider and one other authority.
HomeIssuer == "https://idp.example/org1"
ForeignIssuer == "https://evil.example"
Issuers == {HomeIssuer, ForeignIssuer}

\* Key identifiers an authority may publish at /.well-known/jwks.json.
KidsOf(i) == IF i = HomeIssuer THEN {"K1", "K2"} ELSE {"K1"}
Kids == UNION {KidsOf(i) : i \in Issuers}

\* The key sets an authority may serve: it always serves at least one key.
KeySetsOf(i) == SUBSET KidsOf(i) \ {{}}

\* A key pair is named by the authority that owns it and its kid.
Key(i, k) == [issuer |-> i, kid |-> k]
Keys == UNION {{Key(i, k) : k \in KidsOf(i)} : i \in Issuers}

NoIss == "<no iss>"
NoKid == "<no kid>"
\* A token without an exp claim never expires (PyJWT validates exp only when
\* the claim is present): its exp lies beyond every value of the clock.
NoExp == MaxTime + 1
NoSub == "<no sub>"
EmptySub == ""
Subjects == {"user_42", "user_7"}
\* The aud claim is the set of audiences the token names: none, one, several.
NoAud == {}
Audiences == {{"app"}, {"app", "other"}}
NoKey == [issuer |-> "<none>", kid |-> "<none>"]
NoResult == "<running>"
Failed == "<HTTPException>"
NoExc == "<no exception>"

\* A token the structural decode cannot parse: every other field is unread.
MalformedToken ==
    [wellformed |-> FALSE, iss |-> NoIss, kid |-> NoKid, alg |-> "RS256",
     signed_by |-> NoKey, exp |-> NoExp, sub |-> NoSub, aud |-> NoAud]

\* A parseable token without an issuer claim: verify stops before reading more.
NoIssuerToken ==
    [wellformed |-> TRUE, iss |-> NoIss, kid |-> NoKid, alg |-> "RS256",
     signed_by |-> NoKey, exp |-> NoExp, sub |-> NoSub, aud |-> NoAud]

\* RS256 tokens: any issuer and kid in the header and claims, signed with any
\* key pair, any expiry, any subject.
RS256Tokens ==
    [wellformed : {TRUE}, iss : Issuers, kid : Kids, alg : {"RS256"},
     signed_by : Keys, exp : (0..MaxTime) \cup {NoExp},
     sub : Subjects \cup {NoSub, EmptySub}, aud : {NoAud}]

\* RS256 tokens that carry an aud claim; otherwise as above, for one kid, one
\* subject and the two ends of the expiry range.
AudTokens ==
    [wellformed : {TRUE}, iss : Issuers, kid : {"K1"}, alg : {"RS256"},
     signed_by : Keys, exp : {0, NoExp}, sub : {"user_42"}, aud : Audiences]

\* Tokens of another algorithm, made with the very key their header names
\* (the public key used as an HMAC secret).
HS256Tokens ==
    {[wellformed |-> TRUE, iss |-> k.issuer, kid |-> k.kid, alg |-> "HS256",
      signed_by |-> k, exp |-> NoExp, sub |-> s, aud |-> NoAud] :
        k \in Keys, s \in Subjects}

\* The bearer tokens a client may present.
Tokens ==
    {MalformedToken, NoIssuerToken} \cup RS256Tokens \cup AudTokens
        \cup HS256Tokens


VARIABLES
    _jwk_clients,   \* VerifyToken._jwk_clients: issuer -> key client
    published,      \* what each authority serves at /.well-known/jwks.json
    now,            \* the clock
    pc,             \* position of the running verify call
    token,          \* verify's argument
    issuer,         \* verify's local: the unverified iss claim
    signing_key,    \* verify's local: the key the client selected
    result,         \* the value verify returned, or Failed
    response,       \* the HTTPException verify raised
    exc,            \* the exception caught by verify's handlers
    fetch_log,      \* outcomes of this call's key-set fetches, in order
    retries,        \* times this call ran the except branch of lines 35-42
    cache_writes,   \* entries of _jwk_clients this call set or deleted
    clients_at_start, \* _jwk_clients when the call started
    started_at,     \* the clock when the call started
    verified_at,    \* the clock when the signature and claims were checked
    prev_call,      \* issuer, outcome and fetches of the call before this one
    other_pc,       \* position of a second request's verify call
    other_issuer,   \* the issuer that second call resolves
    other_kid,      \* the kid that second call looks up
    request,        \* the HTTP request being served: route and body
    user_id,        \* the handler's user_id parameter
    http_status,    \* status code of the response to the request
    verify_calls,   \* times verify was invoked for the request
    db_ops,         \* data-store operations the handler executed
    learned_cards,  \* the learned_cards collection
    review_cards,   \* the review_cards collection
    calls,          \* the handler invocations in progress, with their locals
    relationships,  \* the relationships collection
    groups          \* the groups collection: groupId -> students list

vars == <<_jwk_clients, published, now, pc, token, issuer, signing_key, result,
          response, exc, fetch_log, retries, cache_writes, clients_at_start,
          started_at, verified_at, prev_call, other_pc, other_issuer, other_kid,
          request,
          user_id, http_status, verify_calls, db_ops, learned_cards,
          review_cards, calls, relationships, groups>>

env == <<published, now>>
locals == <<token, issuer, signing_key, result, response, exc>>
ghosts == <<fetch_log, retries, cache_writes, clients_at_start, started_at,
            verified_at>>

others == <<other_pc, other_issuer, other_kid>>
served == <<request, user_id, http_status, verify_calls, db_ops>>
collections == <<learned_cards, review_cards>>
stores == <<calls, relationships, groups>>
\* What the steps of one verify call leave alone.
outside == <<prev_call, others, served, collections, stores>>

NoCall == [iss |-> NoIss, ok |-> FALSE, fetches |-> 0]
NoAnswer == [route |-> "<none>", status |-> 0]
NoRequest == [route |-> "<none>", userId |-> "<none>", cards |-> {}]
NoUser == "<no user>"
NoResponse == [status_code |-> 0, detail |-> "", headers |-> ""]
NotYet == MaxTime + 1

----
\* The key client (jwt.PyJWKClient) and the verified decode (jwt.decode).

\* A client as the constructor leaves it: nothing fetched, nothing kept.
NewClient == [cached |-> FALSE, keys |-> {}]

\* What one GET of the issuer's key-set document can give.
FetchOutcomes == {"ok", "unreachable", "garbage"}

\* PyJWKClient.fetch_data: the set served now is kept and returned; when the
\* request fails (URLError, timeout -> PyJWKClientConnectionError) or the body
\* is not JSON (JSONDecodeError), the kept set is cleared and the error raised.
FetchData(pub, outcome) ==
    IF outcome = "ok"
    THEN [client |-> [cached |-> TRUE, keys |-> pub], exc |-> NoExc]
    ELSE [client |-> NewClient,
          exc |-> IF outcome = "unreachable" THEN "PyJWKClientConnectionError"
                  ELSE "JSONDecodeError"]

\* What the call's fetch log keeps of a fetch.
Logged(outcome) == IF outcome = "ok" THEN "ok" ELSE "failed"

\* PyJWKClient.match_kid over the signing keys of a set.
MatchKid(keys, kid) == kid \in keys

\* A key client that does not refresh on a miss: the kid is looked up once.
GetSigningKey_NoRefresh(client, iss, kid, pub, o1, o2) ==
    LET first == IF client.cached
                 THEN [client |-> client, exc |-> NoExc]
                 ELSE FetchData(pub, o1)
        log1  == IF client.cached THEN <<>> ELSE <<Logged(o1)>>
    IN  IF first.exc = NoExc /\ MatchKid(first.client.keys, kid)
        THEN [client |-> first.client, exc |-> NoExc, key |-> Key(iss, kid),
              log |-> log1]
        ELSE [client |-> first.client,
              exc |-> IF first.exc # NoExc THEN first.exc ELSE "PyJWKClientError",
              key |-> NoKey, log |-> log1]

\* A key client made with cache_jwk_set=False: every lookup fetches.
GetSigningKey_NoCache(client, iss, kid, pub, o1, o2) ==
    LET first == IF FALSE
                 THEN [client |-> client, exc |-> NoExc]
                 ELSE FetchData(pub, o1)
        log1  == IF FALSE THEN <<>> ELSE <<Logged(o1)>>
        raise(c, e, l) == [client |-> c, exc |-> e, key |-> NoKey, log |-> l]
    IN  IF first.exc # NoExc THEN raise(first.client, first.exc, log1)
        ELSE IF first.client.keys = {}
        THEN raise(first.client, "PyJWKSetError", log1)
        ELSE IF MatchKid(first.client.keys, kid)
        THEN [client |-> first.client, exc |-> NoExc, key |-> Key(iss, kid),
              log |-> log1]
        ELSE LET o == IF FALSE THEN o1 ELSE o2
                 second == FetchData(pub, o)
                 log2 == Append(log1, Logged(o))
             IN  IF second.exc # NoExc
                 THEN raise(second.client, second.exc, log2)
                 ELSE IF second.client.keys = {}
                 THEN raise(second.client, "PyJWKSetError", log2)
                 ELSE IF MatchKid(second.client.keys, kid)
                 THEN [client |-> second.client, exc |-> NoExc,
                       key |-> Key(iss, kid), log |-> log2]
                 ELSE raise(second.client, "PyJWKClientError", log2)

\* PyJWKClient.get_signing_key_from_jwt(token): the kid of the token header is
\* looked up in the kept set, fetching first when nothing is kept; a miss
\* fetches once more (refresh=True) and raises PyJWKClientError when the kid
\* is still absent; a set without keys raises PyJWKSetError with no refresh.
\* o1 and o2 are the outcomes of the first and second fetch it performs.
GetSigningKey(client, iss, kid, pub, o1, o2) ==
    LET first == IF client.cached
                 THEN [client |-> client, exc |-> NoExc]
                 ELSE FetchData(pub, o1)
        log1  == IF client.cached THEN <<>> ELSE <<Logged(o1)>>
        raise(c, e, l) == [client |-> c, exc |-> e, key |-> NoKey, log |-> l]
    IN  IF first.exc # NoExc THEN raise(first.client, first.exc, log1)
        ELSE IF first.client.keys = {}
        THEN raise(first.client, "PyJWKSetError", log1)
        ELSE IF MatchKid(first.client.keys, kid)
        THEN [client |-> first.client, exc |-> NoExc, key |-> Key(iss, kid),
              log |-> log1]
        ELSE LET o == IF client.cached THEN o1 ELSE o2
                 second == FetchData(pub, o)
                 log2 == Append(log1, Logged(o))
             IN  IF second.exc # NoExc
                 THEN raise(second.client, second.exc, log2)
                 ELSE IF second.client.keys = {}
                 THEN raise(second.client, "PyJWKSetError", log2)
                 ELSE IF MatchKid(second.client.keys, kid)
                 THEN [client |-> second.client, exc |-> NoExc,
                       key |-> Key(iss, kid), log |-> log2]
                 ELSE raise(second.client, "PyJWKClientError", log2)

\* jwt.decode with its default options: the aud claim is verified.
VerifyAud_Default == TRUE

\* Line 49, options={"verify_aud": False}.
VerifyAud == FALSE

\* jwt.decode as it would be with verify_signature switched off.
DecodeVerified_NoSignature(t, key, iss, clock) ==
    IF t.exp <= clock THEN "ExpiredSignatureError"
    ELSE IF t.iss # iss THEN "InvalidIssuerError"
    ELSE IF VerifyAud /\ t.aud # NoAud THEN "InvalidAudienceError"
    ELSE NoExc

\* jwt.decode as it would be with verify_exp switched off.
DecodeVerified_NoExpiry(t, key, iss, clock) ==
    IF t.alg # "RS256" THEN "InvalidAlgorithmError"
    ELSE IF t.signed_by # key THEN "InvalidSignatureError"
    ELSE IF t.iss # iss THEN "InvalidIssuerError"
    ELSE IF VerifyAud /\ t.aud # NoAud THEN "InvalidAudienceError"
    ELSE NoExc

\* jwt.decode(token, signing_key.key, algorithms=["RS256"],
\*            options={"verify_aud": False}, issuer=issuer):
\* the exception it raises, or NoExc.  The algorithm and the signature are
\* checked first, then exp (expired when exp <= now), then iss, then aud when
\* the option asks for it: no audience is passed, so any aud claim would fail.
DecodeVerified(t, key, iss, clock) ==
    IF t.alg # "RS256" THEN "InvalidAlgorithmError"
    ELSE IF t.signed_by # key THEN "InvalidSignatureError"
    ELSE IF t.exp <= clock THEN "ExpiredSignatureError"
    ELSE IF t.iss # iss THEN "InvalidIssuerError"
    ELSE IF VerifyAud /\ t.aud # NoAud THEN "InvalidAudienceError"
    ELSE NoExc

\* The exception classes derived from jwt.PyJWTError.
PyJWTErrors ==
    {"DecodeError", "PyJWKClientConnectionError", "PyJWKClientError",
     "PyJWKSetError", "InvalidAlgorithmError", "InvalidSignatureError",
     "ExpiredSignatureError", "InvalidIssuerError", "InvalidAudienceError"}

\* verify with the first handler only: anything that is not a PyJWTError
\* leaves verify and becomes the framework's 500.
HandleException_NoCatchAll(e) ==
    IF e \in PyJWTErrors
    THEN [status_code |-> 401, detail |-> "Could not validate credentials",
          headers |-> "WWW-Authenticate: Bearer"]
    ELSE [status_code |-> 500, detail |-> "Internal Server Error",
          headers |-> ""]

\* The two handlers of verify: what the caller gets for a raised exception.
HandleException(e) ==
    IF e \in PyJWTErrors
    THEN [status_code |-> 401, detail |-> "Could not validate credentials",
          headers |-> "WWW-Authenticate: Bearer"]
    ELSE [status_code |-> 401, detail |-> "Authentication failed: " \o e,
          headers |-> "WWW-Authenticate: Bearer"]

----
\* VerifyToken.verify, step by step.

Init ==
    /\ _jwk_clients = <<>>
    /\ published = [i \in Issuers |-> KidsOf(i)]
    /\ now = 0
    /\ pc = "idle"
    /\ token = MalformedToken
    /\ issuer = NoIss
    /\ signing_key = NoKey
    /\ result = NoResult
    /\ response = NoResponse
    /\ exc = NoExc
    /\ fetch_log = <<>>
    /\ retries = 0
    /\ cache_writes = 0
    /\ clients_at_start = <<>>
    /\ started_at = 0
    /\ verified_at = NotYet
    /\ prev_call = NoCall
    /\ other_pc = "idle"
    /\ other_issuer = NoIss
    /\ other_kid = NoKid
    /\ request = NoRequest
    /\ user_id = NoUser
    /\ http_status = 0
    /\ verify_calls = 0
    /\ db_ops = {}
    /\ learned_cards = {}
    /\ review_cards = {}
    /\ calls = [waiting |-> EmptyBag, last |-> NoAnswer]
    /\ relationships = <<>>
    /\ groups = <<>>

\* The dict operations of _jwk_clients.
Has(clients, i) == i \in DOMAIN clients
Put(clients, i, c) ==
    [j \in DOMAIN clients \cup {i} |-> IF j = i THEN c ELSE clients[j]]
Del(clients, i) == [j \in DOMAIN clients \ {i} |-> clients[j]]

\* An exception reaches the handlers of lines 59-72: the call ends with the
\* HTTPException they raise.
Raise(e) ==
    /\ exc' = e
    /\ response' = HandleException(e)
    /\ result' = Failed
    /\ pc' = "done"

\* Line 82, auth_service.verify(token): the call is entered.
CallVerify(t) ==
    /\ pc = "idle"
    /\ pc' = "decode_unverified"
    /\ token' = t
    /\ clients_at_start' = _jwk_clients
    /\ started_at' = now
    /\ UNCHANGED <<_jwk_clients, env, issuer, signing_key, result, response,
                   exc, fetch_log, retries, cache_writes, verified_at>>

\* A coroutine the event loop runs to its end.
RunsToCompletion_Threaded(p) == TRUE

\* Lines 76-83: get_current_user_id is a coroutine with no await in it, and
\* verify is an ordinary function.  The event loop starts the call of one
\* request only when the call of no other request is between its steps, at
\* position p.
RunsToCompletion(p) == p = "idle"

\* get_current_user_id calls auth_service.verify(token).
Verify(t) ==
    /\ RunsToCompletion(other_pc)
    /\ CallVerify(t)
    /\ UNCHANGED outside

\* The issuer looked up in the client map before it is checked for absence.
DecodeUnverified_ResolveFirst ==
    /\ pc = "decode_unverified"
    /\ IF ~token.wellformed
       THEN Raise("DecodeError") /\ UNCHANGED <<issuer, _jwk_clients, cache_writes>>
       ELSE IF token.iss = NoIss
       THEN /\ Raise("Exception")
            /\ _jwk_clients' = Put(_jwk_clients, NoIss, NewClient)
            /\ cache_writes' = cache_writes + 1
            /\ UNCHANGED issuer
       ELSE /\ issuer' = token.iss
            /\ pc' = "resolve"
            /\ UNCHANGED <<result, response, exc, _jwk_clients, cache_writes>>
    /\ UNCHANGED <<env, token, signing_key, fetch_log, retries,
                   clients_at_start, started_at, verified_at>>
    /\ UNCHANGED outside

\* Lines 19-23: the claims are decoded without verification to read iss.
DecodeUnverified ==
    /\ pc = "decode_unverified"
    /\ IF ~token.wellformed
       THEN Raise("DecodeError") /\ UNCHANGED issuer
       ELSE IF token.iss = NoIss
       THEN Raise("Exception") /\ UNCHANGED issuer
       ELSE /\ issuer' = token.iss
            /\ pc' = "resolve"
            /\ UNCHANGED <<result, response, exc>>
    /\ UNCHANGED <<_jwk_clients, env, token, signing_key, ghosts>>
    /\ UNCHANGED outside

\* A client created for every call, cached or not.
ResolveClient_AlwaysNew ==
    /\ pc = "resolve"
    /\ _jwk_clients' = Put(_jwk_clients, issuer, NewClient)
    /\ cache_writes' = cache_writes + 1
    /\ pc' = "get_signing_key"
    /\ UNCHANGED <<env, locals, fetch_log, retries, clients_at_start,
                   started_at, verified_at>>
    /\ UNCHANGED outside

\* Lines 26-30: a client is created for an issuer that has none.
ResolveClient ==
    /\ pc = "resolve"
    /\ IF ~Has(_jwk_clients, issuer)
       THEN /\ _jwk_clients' = Put(_jwk_clients, issuer, NewClient)
            /\ cache_writes' = cache_writes + 1
       ELSE UNCHANGED <<_jwk_clients, cache_writes>>
    /\ pc' = "get_signing_key"
    /\ UNCHANGED <<env, locals, fetch_log, retries, clients_at_start,
                   started_at, verified_at>>
    /\ UNCHANGED outside

\* One client shared by all issuers: the key is looked up in whatever client
\* the map holds.
GetSigningKeyFromJwt_AnyClient ==
    /\ pc = "get_signing_key"
    /\ \E j \in DOMAIN _jwk_clients : \E o1, o2 \in FetchOutcomes :
         LET r == GetSigningKey(_jwk_clients[j], j, token.kid,
                                published[j], o1, o2)
         IN  /\ _jwk_clients' = Put(_jwk_clients, j, r.client)
             /\ fetch_log' = fetch_log \o r.log
             /\ signing_key' = r.key
             /\ pc' = IF r.exc = NoExc THEN "decode_verified" ELSE "except"
    /\ UNCHANGED <<env, token, issuer, result, response, exc, retries,
                   cache_writes, clients_at_start, started_at, verified_at>>
    /\ UNCHANGED outside

\* The key set fetched from one configured URL, whatever issuer the token
\* names.
GetSigningKeyFromJwt_HomeUrl ==
    /\ pc = "get_signing_key"
    /\ \E o1, o2 \in FetchOutcomes :
         LET r == GetSigningKey(_jwk_clients[issuer], HomeIssuer, token.kid,
                                published[HomeIssuer], o1, o2)
         IN  /\ _jwk_clients' = Put(_jwk_clients, issuer, r.client)
             /\ fetch_log' = fetch_log \o r.log
             /\ signing_key' = r.key
             /\ pc' = IF r.exc = NoExc THEN "decode_verified" ELSE "except"
    /\ UNCHANGED <<env, token, issuer, result, response, exc, retries,
                   cache_writes, clients_at_start, started_at, verified_at>>
    /\ UNCHANGED outside

\* jwks_client, the object read from the map at line 30 or 41.  The map holds
\* it for as long as no del of line 38 has run since; an object the map has
\* dropped is on its own, and what it keeps is kept nowhere.
Held(clients, i) == IF Has(clients, i) THEN clients[i] ELSE NewClient
Keep(clients, i, c) == IF Has(clients, i) THEN Put(clients, i, c) ELSE clients

\* Lines 32-35: the client selects the key named by the token's kid; any
\* exception it raises is caught by the inner handler.
GetSigningKeyFromJwt ==
    /\ pc = "get_signing_key"
    /\ \E o1, o2 \in FetchOutcomes :
         LET r == GetSigningKey(Held(_jwk_clients, issuer), issuer, token.kid,
                                published[issuer], o1, o2)
         IN  /\ _jwk_clients' = Keep(_jwk_clients, issuer, r.client)
             /\ fetch_log' = fetch_log \o r.log
             /\ signing_key' = r.key
             /\ pc' = IF r.exc = NoExc THEN "decode_verified" ELSE "except"
    /\ UNCHANGED <<env, token, issuer, result, response, exc, retries,
                   cache_writes, clients_at_start, started_at, verified_at>>
    /\ UNCHANGED outside

\* Lines 36-41: the entry is deleted and a new client put in its place.  The
\* del of line 38 raises KeyError when the map has no entry for the issuer;
\* that exception leaves the inner handler for the outer ones.
InvalidateAndRecreate ==
    /\ pc = "except"
    /\ IF Has(_jwk_clients, issuer)
       THEN /\ _jwk_clients' = Put(Del(_jwk_clients, issuer), issuer, NewClient)
            /\ cache_writes' = cache_writes + 2
            /\ retries' = retries + 1
            /\ pc' = "retry_signing_key"
            /\ UNCHANGED <<result, response, exc>>
       ELSE /\ Raise("KeyError")
            /\ UNCHANGED <<_jwk_clients, cache_writes, retries>>
    /\ UNCHANGED <<env, token, issuer, signing_key, fetch_log,
                   clients_at_start, started_at, verified_at>>
    /\ UNCHANGED outside

\* The retry as it would be if a failed lookup fell back on the key set the
\* issuer had before the call.
RetrySigningKeyFromJwt_StaleFallback ==
    /\ pc = "retry_signing_key"
    /\ \E o1, o2 \in FetchOutcomes :
         LET r == GetSigningKey(_jwk_clients[issuer], issuer, token.kid,
                                published[issuer], o1, o2)
         IN  /\ fetch_log' = fetch_log \o r.log
             /\ signing_key' = r.key
             /\ IF r.exc = NoExc
                THEN /\ _jwk_clients' = Put(_jwk_clients, issuer, r.client)
                     /\ pc' = "decode_verified"
                     /\ UNCHANGED <<result, response, exc>>
                ELSE /\ _jwk_clients' =
                            IF Has(clients_at_start, issuer)
                            THEN Put(_jwk_clients, issuer,
                                     clients_at_start[issuer])
                            ELSE Put(_jwk_clients, issuer, r.client)
                     /\ Raise(r.exc)
    /\ UNCHANGED <<env, token, issuer, retries, cache_writes, clients_at_start,
                   started_at, verified_at>>
    /\ UNCHANGED outside

\* Line 42: the lookup is repeated on the new client; an exception now
\* leaves the inner handler and reaches the outer ones.
RetrySigningKeyFromJwt ==
    /\ pc = "retry_signing_key"
    /\ \E o1, o2 \in FetchOutcomes :
         LET r == GetSigningKey(Held(_jwk_clients, issuer), issuer, token.kid,
                                published[issuer], o1, o2)
         IN  /\ _jwk_clients' = Keep(_jwk_clients, issuer, r.client)
             /\ fetch_log' = fetch_log \o r.log
             /\ signing_key' = r.key
             /\ IF r.exc = NoExc
                THEN pc' = "decode_verified" /\ UNCHANGED <<result, response, exc>>
                ELSE Raise(r.exc)
    /\ UNCHANGED <<env, token, issuer, retries, cache_writes, clients_at_start,
                   started_at, verified_at>>
    /\ UNCHANGED outside

\* jwt.decode moved inside the inner try: its first failure is caught by the
\* inner handler, which invalidates and retries.
VerificationFailed_Retry(e) ==
    IF retries = 0
    THEN pc' = "except" /\ UNCHANGED <<exc, response, result>>
    ELSE Raise(e)

\* jwt.decode of line 45 stands outside the inner try of lines 32-42: what
\* it raises goes straight to the handlers of lines 59-72.
VerificationFailed(e) == Raise(e)

\* The sub check written as "user_id is None".
MissingSub_NoneOnly(sub) == sub = NoSub

\* Line 54, "not user_id": the sub claim is absent or empty.
MissingSub(sub) == sub \in {NoSub, EmptySub}

\* Lines 45-57: signature and claims are verified with the selected key and
\* the sub claim is returned.
DecodeAndReturn ==
    /\ pc = "decode_verified"
    /\ verified_at' = now
    /\ LET e == DecodeVerified(token, signing_key, issuer, now)
       IN  IF e # NoExc THEN VerificationFailed(e)
           ELSE IF MissingSub(token.sub) THEN Raise("Exception")
           ELSE /\ result' = token.sub
                /\ pc' = "done"
                /\ UNCHANGED <<response, exc>>
    /\ UNCHANGED <<_jwk_clients, env, token, issuer, signing_key, fetch_log,
                   retries, cache_writes, clients_at_start, started_at>>
    /\ UNCHANGED outside

\* The call is over and its frame is gone.  The next request may come.
LeaveVerify ==
    /\ pc' = "idle"
    /\ token' = MalformedToken
    /\ issuer' = NoIss
    /\ signing_key' = NoKey
    /\ result' = NoResult
    /\ response' = NoResponse
    /\ exc' = NoExc
    /\ fetch_log' = <<>>
    /\ retries' = 0
    /\ cache_writes' = 0
    /\ clients_at_start' = <<>>
    /\ started_at' = 0
    /\ verified_at' = NotYet
    /\ UNCHANGED <<_jwk_clients, env>>

\* Line 83: get_current_user_id returns what verify returned, or verify's
\* HTTPException ends the request.
Return ==
    /\ pc = "done"
    /\ LeaveVerify
    /\ UNCHANGED outside

----
\* The environment.

\* An authority rotates its keys: it serves another set from now on.  A call
\* sees one set throughout (rotations are rare next to the length of a call).
Rotate(i, ks) ==
    /\ pc = "idle"
    /\ ks # published[i]
    /\ published' = [published EXCEPT ![i] = ks]
    /\ UNCHANGED <<_jwk_clients, now, pc, locals, ghosts>>
    /\ UNCHANGED outside

\* Time passes.
Tick ==
    /\ now < MaxTime
    /\ now' = now + 1
    /\ UNCHANGED <<_jwk_clients, published, pc, locals, ghosts>>
    /\ UNCHANGED outside

\* The lifespan of a kept key set (300 s) is over: JWKSetCache.get() gives
\* None from now on, as if nothing were kept.
LifespanElapses(i) ==
    /\ pc = "idle"
    /\ Has(_jwk_clients, i)
    /\ _jwk_clients[i].cached
    /\ _jwk_clients' = Put(_jwk_clients, i, NewClient)
    /\ UNCHANGED <<env, pc, locals, ghosts>>
    /\ UNCHANGED outside

Next ==
    \/ \E t \in Tokens : Verify(t)
    \/ DecodeUnverified
    \/ ResolveClient
    \/ GetSigningKeyFromJwt
    \/ InvalidateAndRecreate
    \/ RetrySigningKeyFromJwt
    \/ DecodeAndReturn
    \/ Return
    \/ \E i \in Issuers : \E ks \in KeySetsOf(i) : Rotate(i, ks)
    \/ Tick
    \/ \E i \in Issuers : LifespanElapses(i)

Spec == Init /\ [][Next]_vars

TypeOK ==
    /\ DOMAIN _jwk_clients \subseteq Issuers
    /\ pc \in {"idle", "decode_unverified", "resolve", "get_signing_key",
               "except", "retry_signing_key", "decode_verified", "done",
               "responded"}
    /\ token \in Tokens
    /\ now \in 0..MaxTime

----
\* Properties of verify.

\* The token is acceptable as far as the token itself goes: RS256, signed with
\* the key its issuer and kid name, not expired, carrying a subject.
ValidToken(t) ==
    /\ t \in RS256Tokens \cup AudTokens
    /\ t.signed_by = Key(t.iss, t.kid)
    /\ t.exp > now
    /\ t.sub \in Subjects

\* The key set kept for issuer i in the clients map c, {} when none is kept.
KeptKeys(c, i) == IF Has(c, i) /\ c[i].cached THEN c[i].keys ELSE {}

\* C1: verify returns a principal only if a key with the token's kid was taken
\* from the key set of the token's issuer, the signature verified against that
\* key, the expiry had not elapsed when it was checked, and the principal is
\* the token's non-empty subject; this holds on the first attempt and on the
\* retry alike.
C1_Soundness ==
    (pc = "done" /\ result # Failed) =>
        /\ token.wellformed
        /\ signing_key \in Keys
        /\ signing_key.kid = token.kid
        /\ signing_key.issuer = token.iss
        /\ token.kid \in KeptKeys(_jwk_clients, token.iss)
        /\ token.alg = "RS256"
        /\ token.signed_by = signing_key
        /\ verified_at <= MaxTime
        /\ token.exp > verified_at
        /\ result = token.sub
        /\ result \in Subjects

\* A principal returned on the retry path, for a token with an expiry claim.
C1_Witness ==
    /\ pc = "done"
    /\ result \in Subjects
    /\ retries = 1
    /\ token.exp <= MaxTime

\* C2: a well-formed token signed by a key that is in the cached key set of
\* its issuer when the call starts, not expired, with a subject, makes verify
\* return that subject.
C2_Completeness ==
    (/\ pc = "done"
     /\ ValidToken(token)
     /\ token.kid \in KeptKeys(clients_at_start, token.iss))
    => result = token.sub

\* Such a token accepted from the cache, without a fetch.
C2_Witness ==
    /\ pc = "done"
    /\ ValidToken(token)
    /\ token.exp <= MaxTime
    /\ token.kid \in KeptKeys(clients_at_start, token.iss)
    /\ fetch_log = <<>>
    /\ result = token.sub

\* C3, as claimed: a token that names another authority than the deployment's
\* identity provider is rejected, even when that authority signed it with a
\* key it serves.
C3_ForeignRejected ==
    (pc = "done" /\ token.wellformed /\ token.iss = ForeignIssuer)
    => result = Failed

\* The rotation case: an otherwise valid token whose kid is not in the key set
\* kept for its issuer when the call starts, but is in the set served now.
RotationCase ==
    /\ pc = "done"
    /\ ValidToken(token)
    /\ Has(clients_at_start, token.iss)
    /\ clients_at_start[token.iss].cached
    /\ token.kid \notin clients_at_start[token.iss].keys
    /\ token.kid \in published[token.iss]

VerificationFailsOnCachedKey ==
    /\ pc = "done"
    /\ token.wellformed
    /\ token.kid \in KeptKeys(clients_at_start, token.iss)
    /\ exc \in {"InvalidAlgorithmError", "InvalidSignatureError",
                "ExpiredSignatureError"}

C6_BoundedRetry ==
    pc = "done" => retries <= 1 /\ Len(fetch_log) <= 2

\* C7, as claimed: every failed call gives the caller the same error, the one
\* an unparseable token gets.
C7_UniformFailure ==
    (pc = "done" /\ result = Failed) => response = HandleException("DecodeError")

\* C8: a call ends with a principal or with the 401 error, nothing else,
\* whatever was raised on the way.
C8_OnlyUnauthorized ==
    pc = "done" =>
        \/ result \in Subjects /\ exc = NoExc /\ response = NoResponse
        \/ result = Failed /\ exc # NoExc /\ response.status_code = 401

\* An exception that is not a PyJWTError, raised by the retried fetch.
C8_Witness ==
    /\ pc = "done"
    /\ exc = "JSONDecodeError"
    /\ retries = 1
    /\ response.status_code = 401

\* C9: a token whose expiry lies in the past when the call starts fails,
\* whatever its signature and whatever the cache holds.
C9_ExpiredFails ==
    (pc = "done" /\ token.wellformed /\ token.exp < started_at)
    => result = Failed

\* An expired token, properly signed, its key cached: failed on expiry.
C9_Witness ==
    /\ pc = "done"
    /\ token.exp < started_at
    /\ token.signed_by = Key(token.iss, token.kid)
    /\ token.kid \in KeptKeys(clients_at_start, token.iss)
    /\ exc = "ExpiredSignatureError"
    /\ result = Failed

\* C10: an unparseable token or one without issuer fails at the parse stage:
\* no fetch, no cache entry added, removed or replaced.
C10_ParseStageFrame ==
    (pc = "done" /\ (~token.wellformed \/ token.iss = NoIss)) =>
        /\ result = Failed
        /\ exc \in {"DecodeError", "Exception"}
        /\ issuer = NoIss
        /\ fetch_log = <<>>
        /\ cache_writes = 0
        /\ _jwk_clients = clients_at_start

\* A token without issuer rejected while the cache holds a key set.
C10_Witness ==
    /\ pc = "done"
    /\ token = NoIssuerToken
    /\ result = Failed
    /\ KeptKeys(_jwk_clients, HomeIssuer) # {}

\* C11: the key a call uses is taken from the key set of exactly the issuer
\* its token names, and a token signed with a key of another issuer fails,
\* also when that other issuer's key is held in the cache.
C11_CrossIssuer ==
    /\ signing_key # NoKey =>
          /\ signing_key.issuer = token.iss
          /\ signing_key.issuer = issuer
    /\ (/\ pc = "done"
        /\ token.wellformed
        /\ token.iss # NoIss
        /\ token.signed_by.issuer # token.iss)
       => result = Failed

\* A token naming the home issuer, signed with the foreign issuer's key of the
\* same kid while that key is cached: rejected on its signature.
C11_Witness ==
    /\ pc = "done"
    /\ token.iss = HomeIssuer
    /\ token.signed_by = Key(ForeignIssuer, token.kid)
    /\ token.kid \in KeptKeys(clients_at_start, ForeignIssuer)
    /\ signing_key = Key(HomeIssuer, token.kid)
    /\ exc = "InvalidSignatureError"
    /\ result = Failed

\* The cold case: a valid token whose issuer has no entry when the call
\* starts, the key being served and every fetch of the call answered.
ColdCase ==
    /\ pc = "done"
    /\ ValidToken(token)
    /\ ~Has(clients_at_start, token.iss)
    /\ token.kid \in published[token.iss]
    /\ \A n \in DOMAIN fetch_log : fetch_log[n] = "ok"

\* C13: in the cold case verify makes exactly one fetch, of the key set its
\* token's issuer serves, finds the key, returns the subject and leaves an
\* entry for that issuer in the cache (the other entries as they were).
C13_ColdCache ==
    ColdCase =>
        /\ fetch_log = <<"ok">>
        /\ retries = 0
        /\ signing_key = Key(token.iss, token.kid)
        /\ result = token.sub
        /\ Has(_jwk_clients, token.iss)
        /\ KeptKeys(_jwk_clients, token.iss) = published[token.iss]
        /\ \A j \in Issuers \ {token.iss} :
              /\ Has(_jwk_clients, j) <=> Has(clients_at_start, j)
              /\ KeptKeys(_jwk_clients, j) = KeptKeys(clients_at_start, j)

\* The scenario of T1: empty cache, home issuer, K1, user_42.
C13_Witness ==
    /\ ColdCase
    /\ clients_at_start = <<>>
    /\ token.iss = HomeIssuer
    /\ token.kid = "K1"
    /\ result = "user_42"
    /\ fetch_log = <<"ok">>

\* C15: a token that passes signature, issuer and expiry verification but has
\* no subject, or an empty one, fails; no absent or empty principal is ever
\* returned.
C15_MissingSubject ==
    pc = "done" =>
        /\ result \notin {NoSub, EmptySub}
        /\ (/\ verified_at <= MaxTime
            /\ DecodeVerified(token, signing_key, issuer, verified_at) = NoExc
            /\ token.sub \in {NoSub, EmptySub})
           => /\ result = Failed
              /\ exc = "Exception"
              /\ response.status_code = 401

\* A token with an empty sub that is otherwise in order: rejected.
C15_Witness ==
    /\ pc = "done"
    /\ token.sub = EmptySub
    /\ token.signed_by = signing_key
    /\ verified_at <= MaxTime
    /\ token.exp > verified_at
    /\ exc = "Exception"
    /\ result = Failed

\* Every key-set fetch of the call failed: the first attempt's and the
\* retry's.
AllFetchesFailed ==
    /\ pc = "done"
    /\ fetch_log # <<>>
    /\ \A n \in DOMAIN fetch_log : fetch_log[n] = "failed"

WithoutAud(t) == [t EXCEPT !.aud = NoAud]

----
\* Consecutive calls.

\* Properly signed tokens of one subject for every key in use, and one whose
\* kid its issuer does not serve.
PairTokens ==
    {t \in RS256Tokens :
        /\ t.sub = "user_42"
        /\ t.exp = NoExp
        /\ t.signed_by = IF t.kid \in KidsOf(t.iss) THEN Key(t.iss, t.kid)
                         ELSE Key(t.iss, "K1")}

\* Return, the ended call remembered: its issuer, whether it returned a
\* principal, and how many fetches it made.
ReturnRemembered ==
    /\ pc = "done"
    /\ LeaveVerify
    /\ prev_call' = [iss |-> token.iss, ok |-> result # Failed,
                     fetches |-> Len(fetch_log)]
    /\ UNCHANGED <<stores, others, served, collections>>

NextPair ==
    \/ \E t \in PairTokens : Verify(t)
    \/ DecodeUnverified
    \/ ResolveClient
    \/ GetSigningKeyFromJwt
    \/ InvalidateAndRecreate
    \/ RetrySigningKeyFromJwt
    \/ DecodeAndReturn
    \/ ReturnRemembered
    \/ \E i \in Issuers : \E ks \in KeySetsOf(i) : Rotate(i, ks)
    \/ Tick
    \/ \E i \in Issuers : LifespanElapses(i)

SpecPair == Init /\ [][NextPair]_vars

\* This call and the one before it both returned a principal for tokens of one
\* issuer.
TwoSuccessfulCalls ==
    /\ pc = "done"
    /\ result # Failed
    /\ prev_call.ok
    /\ prev_call.iss = token.iss

----
\* Two requests at once.  The verify call of a second request takes the same
\* steps over the shared map; of that call only the issuer and the kid are
\* followed.

\* Lines 26-30 of the second call.
OtherVerify(j, k) ==
    /\ other_pc = "idle"
    /\ RunsToCompletion(pc)
    /\ other_issuer' = j
    /\ other_kid' = k
    /\ _jwk_clients' = IF Has(_jwk_clients, j) THEN _jwk_clients
                       ELSE Put(_jwk_clients, j, NewClient)
    /\ other_pc' = "get_signing_key"
    /\ UNCHANGED <<env, pc, locals, ghosts, prev_call, stores, served, collections>>

\* Lines 32-35 of the second call.  When the key is found the call goes on to
\* decode and return, away from the map.
OtherGetSigningKey ==
    /\ other_pc = "get_signing_key"
    /\ \E o1, o2 \in FetchOutcomes :
         LET r == GetSigningKey(Held(_jwk_clients, other_issuer), other_issuer,
                                other_kid, published[other_issuer], o1, o2)
         IN  /\ _jwk_clients' = Keep(_jwk_clients, other_issuer, r.client)
             /\ other_pc' = IF r.exc = NoExc THEN "idle" ELSE "except"
    /\ UNCHANGED <<env, pc, locals, ghosts, prev_call, stores, other_issuer, other_kid,
                   served, collections>>

\* Line 38 of the second call: the entry is deleted.
OtherInvalidate ==
    /\ other_pc = "except"
    /\ IF Has(_jwk_clients, other_issuer)
       THEN /\ _jwk_clients' = Del(_jwk_clients, other_issuer)
            /\ other_pc' = "deleted"
       ELSE /\ other_pc' = "idle"
            /\ UNCHANGED _jwk_clients
    /\ UNCHANGED <<env, pc, locals, ghosts, prev_call, stores, other_issuer, other_kid,
                   served, collections>>

\* Lines 39-40 of the second call: a new client is put in the entry's place.
OtherRecreate ==
    /\ other_pc = "deleted"
    /\ _jwk_clients' = Put(_jwk_clients, other_issuer, NewClient)
    /\ other_pc' = "retry_signing_key"
    /\ UNCHANGED <<env, pc, locals, ghosts, prev_call, stores, other_issuer, other_kid,
                   served, collections>>

\* Lines 41-42 of the second call; found or not, the call is over for the map.
OtherRetrySigningKey ==
    /\ other_pc = "retry_signing_key"
    /\ \E o1, o2 \in FetchOutcomes :
         LET r == GetSigningKey(Held(_jwk_clients, other_issuer), other_issuer,
                                other_kid, published[other_issuer], o1, o2)
         IN  _jwk_clients' = Keep(_jwk_clients, other_issuer, r.client)
    /\ other_pc' = "idle"
    /\ UNCHANGED <<env, pc, locals, ghosts, prev_call, stores, other_issuer, other_kid,
                   served, collections>>

NextConc ==
    \/ \E t \in PairTokens : Verify(t)
    \/ DecodeUnverified
    \/ ResolveClient
    \/ GetSigningKeyFromJwt
    \/ InvalidateAndRecreate
    \/ RetrySigningKeyFromJwt
    \/ DecodeAndReturn
    \/ Return
    \/ \E j \in Issuers : \E k \in Kids : OtherVerify(j, k)
    \/ OtherGetSigningKey
    \/ OtherInvalidate
    \/ OtherRecreate
    \/ OtherRetrySigningKey

SpecConc == Init /\ [][NextConc]_vars

\* The positions of a verify call at which it relies on the entry it has
\* resolved.
PastResolve == {"get_signing_key", "except", "retry_signing_key"}

\* C17: the map holds one entry per issuer, each either a new client or a
\* client keeping a whole key set the issuer served; and while one call is
\* between invalidating an entry and having refreshed it, no other call is
\* between its steps, so that none finds the entry missing or half made.
C17_AtomicRefresh ==
    /\ DOMAIN _jwk_clients \subseteq Issuers
    /\ \A i \in DOMAIN _jwk_clients :
          \/ _jwk_clients[i] = NewClient
          \/ /\ _jwk_clients[i].cached
             /\ _jwk_clients[i].keys = published[i]
    /\ other_pc \in PastResolve \cup {"deleted"} => pc = "idle"
    /\ pc \in PastResolve =>
          /\ other_pc = "idle"
          /\ Has(_jwk_clients, issuer)

\* The second call has deleted the entry and not yet put the new one: no
\* call is there to see it.
C17_Witness ==
    /\ other_pc = "deleted"
    /\ ~Has(_jwk_clients, other_issuer)
    /\ pc = "idle"

\* C18: no call fails on the map (the KeyError of a del or a read of an entry
\* another call removed), and a call with a valid token whose fetches are
\* answered returns the token's subject, whatever calls on the same issuer
\* went before it and however they ended.
C18_NoInterference ==
    /\ exc # "KeyError"
    /\ (/\ pc = "done"
        /\ ValidToken(token)
        /\ \A n \in DOMAIN fetch_log : fetch_log[n] = "ok")
       => /\ result = token.sub
          /\ KeptKeys(_jwk_clients, token.iss) = published[token.iss]

\* A valid token verified right after a call on the same issuer that
\* invalidated the entry and failed its retry.
C18_Witness ==
    /\ pc = "done"
    /\ ValidToken(token)
    /\ other_issuer = token.iss
    /\ other_kid \notin published[token.iss]
    /\ Has(clients_at_start, token.iss)
    /\ result = token.sub

----
\* The protected routes of progress.py and review_cards.py.  A document is
\* followed by its userId and cardId; a request by its route, the userId its
\* body carries, the card ids its body or its query selects (for a lesson,
\* the cards of that level and category), and whether a patch names a field.
\* The data store answers every operation.

CardIds == {"c1", "c2"}
BodyUsers == Subjects \cup {NoUser}

\* Routes whose body has a userId and a list of cards, or one card.
ListBodyRoutes == {"save_progress", "bulk_add_review_cards"}
CardBodyRoutes == {"add_review_card"}
\* Routes with a card id in the path or the query.
CardRoutes == {"delete_learned_card", "check_is_bookmarked",
               "remove_review_card", "update_review_card"}
\* Routes with level and category in the query.
LessonRoutes == {"get_lesson_progress", "reset_lesson_progress",
                 "bulk_remove_review_cards", "check_category_bookmarked"}
\* Routes over all the documents of the user.
UserRoutes == {"get_wordlist", "get_total_learned_count", "get_progress_stats",
               "get_review_cards", "get_review_count"}
Routes ==
    ListBodyRoutes \cup CardBodyRoutes \cup CardRoutes \cup LessonRoutes
        \cup UserRoutes

Requests ==
    {r \in [route : Routes, userId : BodyUsers, cards : SUBSET CardIds,
            fields : BOOLEAN] :
        /\ r.route \notin ListBodyRoutes \cup CardBodyRoutes
              => r.userId = NoUser
        /\ r.route \in CardBodyRoutes \cup CardRoutes
              => \E c \in CardIds : r.cards = {c}
        /\ r.route \in LessonRoutes => r.cards # {}
        /\ r.route \in UserRoutes => r.cards = CardIds
        /\ r.route # "update_review_card" => r.fields}

\* The bearer tokens of the requests: two users' good tokens, one without a
\* subject, one signed with another authority's key, one that is no token.
RouteTokens ==
    {t \in RS256Tokens :
        /\ t.iss = HomeIssuer
        /\ t.kid = "K1"
        /\ t.exp = NoExp
        /\ t.sub # EmptySub
        /\ \/ t.signed_by = Key(HomeIssuer, "K1")
           \/ t.signed_by = Key(ForeignIssuer, "K1") /\ t.sub = "user_7"}
        \cup {MalformedToken}

\* A request arrives with its bearer credentials.  FastAPI resolves the
\* dependency of the route first: get_current_user_id calls verify.
Request(r, t) ==
    /\ CallVerify(t)
    /\ request' = r
    /\ verify_calls' = verify_calls + 1
    /\ UNCHANGED <<prev_call, stores, others, user_id, http_status, db_ops,
                   collections>>

\* verify raised its HTTPException: the request ends with it, the handler is
\* not called.
Unauthorized ==
    /\ pc = "done"
    /\ result = Failed
    /\ pc' = "responded"
    /\ http_status' = response.status_code
    /\ UNCHANGED <<_jwk_clients, env, locals, ghosts, prev_call, stores, others,
                   request, user_id, verify_calls, db_ops, collections>>

\* A handler called whatever became of its dependency.
Gate_Open == pc = "done"

\* user_id: str = Depends(get_current_user_id): the handler is called with
\* the value the dependency returned, when it returned one.
Gate == pc = "done" /\ result # Failed

\* The documents of a collection a filter on userId and cardId matches.
Matching(coll, uid, cards) ==
    {d \in coll : d.userId = uid /\ d.cardId \in cards}

\* One operation on a collection, with the documents it matched or wrote.
Op(name, coll, docs) == [op |-> name, coll |-> coll, docs |-> docs]

\* The handler has run: the response goes out.
Handled(status, ops) ==
    /\ pc' = "responded"
    /\ user_id' = result
    /\ http_status' = status
    /\ db_ops' = ops
    /\ UNCHANGED <<_jwk_clients, env, locals, ghosts, prev_call, stores, others,
                   request, verify_calls>>

\* save_progress filtering on the userId of the body.
EffectiveUserId_Body(body, uid) == body

\* progress.py 80-81: the userId of the body gives way to the principal.
EffectiveUserId(body, uid) == IF body # uid THEN uid ELSE body

\* progress.py 69-127: every card of the body is upserted under the userId
\* of the request.
save_progress ==
    /\ Gate
    /\ request.route = "save_progress"
    /\ LET uid == EffectiveUserId(request.userId, result)
           written == {[userId |-> uid, cardId |-> c] : c \in request.cards}
       IN  /\ learned_cards' = learned_cards \cup written
           /\ Handled(200, {Op("update_one", "learned_cards", {d}) :
                                d \in written})
    /\ UNCHANGED review_cards

\* A handler of progress.py that reads: what it finds or counts.
ReadLearned(route, op) ==
    /\ Gate
    /\ request.route = route
    /\ Handled(200, {Op(op, "learned_cards",
                        Matching(learned_cards, result, request.cards))})
    /\ UNCHANGED collections

\* progress.py 130-174.
get_lesson_progress == ReadLearned("get_lesson_progress", "find")

\* progress.py 177-221.
get_wordlist == ReadLearned("get_wordlist", "find")

\* progress.py 224-253.
reset_lesson_progress ==
    /\ Gate
    /\ request.route = "reset_lesson_progress"
    /\ LET gone == Matching(learned_cards, result, request.cards)
       IN  /\ learned_cards' = learned_cards \ gone
           /\ Handled(200, {Op("delete_many", "learned_cards", gone)})
    /\ UNCHANGED review_cards

\* progress.py 256-284.
delete_learned_card ==
    /\ Gate
    /\ request.route = "delete_learned_card"
    /\ LET gone == Matching(learned_cards, result, request.cards)
       IN  /\ learned_cards' = learned_cards \ gone
           /\ Handled(IF gone = {} THEN 404 ELSE 200,
                      {Op("delete_one", "learned_cards", gone)})
    /\ UNCHANGED review_cards

\* progress.py 287-302.
get_total_learned_count ==
    ReadLearned("get_total_learned_count", "count_documents")

\* progress.py 305-373.
get_progress_stats == ReadLearned("get_progress_stats", "aggregate")

\* Lines 97-120 and 245-265 of review_cards.py: a card is looked up under the
\* principal, and inserted under it when it is not there.
Bookmark(uid, cards) ==
    LET new == {[userId |-> uid, cardId |-> c] : c \in cards} \ review_cards
    IN  /\ review_cards' = review_cards \cup new
        /\ Handled(200,
              {Op("find_one", "review_cards",
                  Matching(review_cards, uid, {c})) : c \in cards}
                \cup {Op("insert_one", "review_cards", {d}) : d \in new})

\* review_cards.py 79-131; line 91 sets the userId of the body.
add_review_card ==
    /\ Gate
    /\ request.route = "add_review_card"
    /\ Bookmark(result, request.cards)
    /\ UNCHANGED learned_cards

\* A handler of review_cards.py that reads: what it finds or counts.
ReadReview(route, op) ==
    /\ Gate
    /\ request.route = route
    /\ Handled(200, {Op(op, "review_cards",
                        Matching(review_cards, result, request.cards))})
    /\ UNCHANGED collections

\* review_cards.py 134-186.
get_review_cards == ReadReview("get_review_cards", "find")

\* review_cards.py 189-211.
get_review_count == ReadReview("get_review_count", "count_documents")

\* review_cards.py 221-278; line 233 sets the userId of the body.
bulk_add_review_cards ==
    /\ Gate
    /\ request.route = "bulk_add_review_cards"
    /\ Bookmark(result, request.cards)
    /\ UNCHANGED learned_cards

\* review_cards.py 281-311.
bulk_remove_review_cards ==
    /\ Gate
    /\ request.route = "bulk_remove_review_cards"
    /\ LET gone == Matching(review_cards, result, request.cards)
       IN  /\ review_cards' = review_cards \ gone
           /\ Handled(200, {Op("delete_many", "review_cards", gone)})
    /\ UNCHANGED learned_cards

\* review_cards.py 314-342.
check_category_bookmarked ==
    ReadReview("check_category_bookmarked", "count_documents")

\* review_cards.py 346-366.
check_is_bookmarked == ReadReview("check_is_bookmarked", "find_one")

\* review_cards.py 369-395.
remove_review_card ==
    /\ Gate
    /\ request.route = "remove_review_card"
    /\ LET gone == Matching(review_cards, result, request.cards)
       IN  /\ review_cards' = review_cards \ gone
           /\ Handled(IF gone = {} THEN 404 ELSE 200,
                      {Op("delete_one", "review_cards", gone)})
    /\ UNCHANGED learned_cards

\* review_cards.py 398-448: 400 before any operation when the patch names no
\* field; the document stays under its userId and cardId.
update_review_card ==
    /\ Gate
    /\ request.route = "update_review_card"
    /\ LET found == Matching(review_cards, result, request.cards)
       IN  IF ~request.fields THEN Handled(400, {})
           ELSE Handled(IF found = {} THEN 404 ELSE 200,
                        {Op("find_one_and_update", "review_cards", found)})
    /\ UNCHANGED collections

\* The response is sent; the request is over.
Respond ==
    /\ pc = "responded"
    /\ LeaveVerify
    /\ request' = NoRequest
    /\ user_id' = NoUser
    /\ http_status' = 0
    /\ verify_calls' = 0
    /\ db_ops' = {}
    /\ UNCHANGED <<prev_call, stores, others, collections>>

NextRoutes ==
    \/ \E r \in Requests : \E t \in RouteTokens : Request(r, t)
    \/ DecodeUnverified
    \/ ResolveClient
    \/ GetSigningKeyFromJwt
    \/ InvalidateAndRecreate
    \/ RetrySigningKeyFromJwt
    \/ DecodeAndReturn
    \/ Unauthorized
    \/ save_progress
    \/ get_lesson_progress
    \/ get_wordlist
    \/ reset_lesson_progress
    \/ delete_learned_card
    \/ get_total_learned_count
    \/ get_progress_stats
    \/ add_review_card
    \/ get_review_cards
    \/ get_review_count
    \/ bulk_add_review_cards
    \/ bulk_remove_review_cards
    \/ check_category_bookmarked
    \/ check_is_bookmarked
    \/ remove_review_card
    \/ update_review_card
    \/ Respond

SpecRoutes == Init /\ [][NextRoutes]_vars

\* C19: verify is invoked once for a request, before anything of the route;
\* when it fails the request ends with verify's 401 and the handler executes
\* no data-store operation; when it succeeds the handler runs with user_id
\* equal to the principal verify returned.
C19_Gate ==
    /\ request # NoRequest => verify_calls = 1
    /\ pc # "responded" =>
          /\ user_id = NoUser
          /\ db_ops = {}
          /\ http_status = 0
    /\ (pc = "responded" /\ result = Failed) =>
          /\ http_status = 401
          /\ response.status_code = 401
          /\ user_id = NoUser
          /\ db_ops = {}
    /\ (pc = "responded" /\ result # Failed) =>
          /\ user_id = result
          /\ user_id = token.sub
          /\ user_id \in Subjects
          /\ http_status \in {200, 400, 404}

\* One request refused with a forged token, having touched nothing.
C19_Witness ==
    /\ pc = "responded"
    /\ request.route = "save_progress"
    /\ request.cards # {}
    /\ token.signed_by = Key(ForeignIssuer, "K1")
    /\ http_status = 401
    /\ db_ops = {}

\* C20: the documents of both collections bear the userId of a principal
\* that wrote them; every operation a handler executes matches or writes only
\* documents whose userId is the principal of the request, whatever userId
\* the body carries.
C20_PrincipalIsolation ==
    /\ \A d \in learned_cards \cup review_cards : d.userId \in Subjects
    /\ pc = "responded" =>
          \A o \in db_ops : \A d \in o.docs :
              /\ d.userId = result
              /\ d.userId = token.sub

\* A save whose body names another user: the card is stored under the
\* principal.
C20_Witness ==
    /\ pc = "responded"
    /\ request.route = "save_progress"
    /\ request.userId = "user_7"
    /\ result = "user_42"
    /\ \E o \in db_ops : \E d \in o.docs : d.userId = "user_42"
    /\ \E d \in learned_cards : d.userId = "user_7"

----
\* The retry and the age of the entry.

\* C27, as claimed: the except branch of lines 35-42 is entered only by a call
\* that found an entry for the issuer when it started; a call that made the
\* entry itself and fails does so after one fetch.
C27_RetryOnlyOnCachedEntry ==
    /\ retries > 0 => Has(clients_at_start, token.iss)
    /\ (/\ pc = "done"
        /\ result = Failed
        /\ token.wellformed
        /\ token.iss # NoIss
        /\ ~Has(clients_at_start, token.iss))
       => Len(fetch_log) <= 1

\* C28, as claimed: a call that starts with a key set kept for the issuer ends
\* as a call that starts with none; so a call returns a principal only for a
\* token whose kid the issuer serves now.
C28_StaleCacheSameOutcome ==
    (pc = "done" /\ result # Failed) => token.kid \in published[token.iss]

----
\* relationships.py.  A handler is entered with the user_id its dependency
\* returned and runs from one await of the data store to the next; the
\* handlers of several requests take turns at the awaits.  The students and
\* teachers collections are read only by this module: their finds are taken
\* together with the step that follows them.

MaxCalls == 2
MaxRels == 1

\* calls.waiting is the bag of the handlers that wait at an await, at most
\* MaxCalls of them, and calls.last the request answered last with its
\* response.

\* The students and teachers collections: profile id -> clerkUserId.
StudentProfiles == [s \in {"S-1"} |-> "user_42"]
TeacherProfiles == [t \in {"T-1"} |-> "user_7"]

\* The relationships collection is kept by _id, in order of insertion; the
\* place of a deleted document stays taken, as an ObjectId is given once.
Gone == [_id |-> 0, deleted |-> TRUE]
NoDoc == [_id |-> 0]
NoStatus == "<no status>"

\* The path's relationship_id: the id of a place in the collection, or a
\* string ObjectId() rejects, written 0.
InvalidObjectId == 0

\* collection.find_one({"_id": id}).
FindRel(id) ==
    IF id \in DOMAIN relationships /\ relationships[id] # Gone
    THEN relationships[id] ELSE NoDoc

\* The documents a filter on studentId and teacherId matches.
RelsOf(sid, tid) ==
    {i \in DOMAIN relationships :
        /\ relationships[i] # Gone
        /\ relationships[i].studentId = sid
        /\ relationships[i].teacherId = tid}

\* The state of the verifier and of the gate, which the handlers below
\* leave alone.
verifier ==
    <<_jwk_clients, env, pc, locals, ghosts, prev_call, others, served>>

\* Another request can be taken up.
Free == BagCardinality(calls.waiting) < MaxCalls

\* The handler of req waits at the await named label.
Await(req, label) ==
    [calls EXCEPT !.waiting =
        @ (+) SetToBag({[route |-> req.route, user_id |-> req.user_id,
                         a |-> req.a, b |-> req.b, pc |-> label]})]

\* The handler of req ends with a response.
Answer(req, status, out) ==
    [route |-> req.route, user_id |-> req.user_id, a |-> req.a,
     b |-> req.b, status |-> status, out |-> out]

\* A request is answered before its handler reaches a second await.
AtOnce(req, status, out) ==
    [calls EXCEPT !.last = Answer(req, status, out)]

\* The waiting handler c ends with a response.
Resume(c, status, out) ==
    [waiting |-> calls.waiting (-) SetToBag({c}),
     last |-> Answer(c, status, out)]

Waiting(c, route, label) ==
    /\ BagIn(c, calls.waiting)
    /\ c.route = route
    /\ c.pc = label

\* relationships.py 84-105: the student is looked up (404), its owner
\* compared with user_id (403), the teacher looked up (404) and the link
\* looked for; an existing one is returned.
link_student_teacher(uid, sid, tid) ==
    /\ Free
    /\ LET req == [route |-> "link_student_teacher", user_id |-> uid,
                   a |-> sid, b |-> tid]
       IN  calls' =
             IF sid \notin DOMAIN StudentProfiles
             THEN AtOnce(req, 404, NoDoc)
             ELSE IF StudentProfiles[sid] # uid
             THEN AtOnce(req, 403, NoDoc)
             ELSE IF tid \notin DOMAIN TeacherProfiles
             THEN AtOnce(req, 404, NoDoc)
             ELSE IF RelsOf(sid, tid) # {}
             THEN AtOnce(req, 200,
                        relationships[CHOOSE i \in RelsOf(sid, tid) :
                                         \A j \in RelsOf(sid, tid) : i <= j])
             ELSE Await(req, "insert_one")
    /\ UNCHANGED <<relationships, verifier, collections, groups>>

\* relationships.py 107-120: the link is inserted with status pending.
LinkInsert(c) ==
    /\ Waiting(c, "link_student_teacher", "insert_one")
    /\ Len(relationships) < MaxRels
    /\ LET doc == [_id |-> Len(relationships) + 1,
                   studentId |-> c.a,
                   teacherId |-> c.b,
                   studentClerkId |-> StudentProfiles[c.a],
                   teacherClerkId |-> TeacherProfiles[c.b],
                   status |-> "pending"]
       IN  /\ relationships' = Append(relationships, doc)
           /\ calls' = Resume(c, 200, doc)
    /\ UNCHANGED <<verifier, collections, groups>>

\* An update open to both parties of the relationship.
MayUpdate_EitherParty(rel, uid) ==
    uid \in {rel.studentClerkId, rel.teacherClerkId}

\* relationships.py 160: only the teacher of the relationship may update it.
MayUpdate(rel, uid) == rel.teacherClerkId = uid

\* relationships.py 147-161: 400 for an id that is no ObjectId, 404 when the
\* relationship is not found, 403 when user_id is not its teacher.
update_relationship_status(uid, id, status) ==
    /\ Free
    /\ LET req == [route |-> "update_relationship_status", user_id |-> uid,
                   a |-> id, b |-> status]
           rel == FindRel(id)
       IN  calls' =
             IF id = InvalidObjectId THEN AtOnce(req, 400, NoDoc)
             ELSE IF rel = NoDoc THEN AtOnce(req, 404, NoDoc)
             ELSE IF ~MayUpdate(rel, uid) THEN AtOnce(req, 403, NoDoc)
             ELSE Await(req, "find_one_and_update")
    /\ UNCHANGED <<relationships, verifier, collections, groups>>

\* relationships.py 163-172: the status is set; 404 when the document has
\* gone in the meantime.
UpdateSet(c) ==
    /\ Waiting(c, "update_relationship_status", "find_one_and_update")
    /\ LET id == c.a
       IN  IF FindRel(id) = NoDoc
           THEN /\ calls' = Resume(c, 404, NoDoc)
                /\ UNCHANGED relationships
           ELSE /\ relationships' =
                      [relationships EXCEPT ![id].status = c.b]
                /\ calls' = Resume(c, 200, relationships'[id])
    /\ UNCHANGED <<verifier, collections, groups>>

\* relationships.py 191-204: 400 for an id that is no ObjectId, 204 when the
\* relationship is not found, 403 when user_id is neither of its parties.
delete_relationship(uid, id) ==
    /\ Free
    /\ LET req == [route |-> "delete_relationship", user_id |-> uid,
                   a |-> id, b |-> NoStatus]
           rel == FindRel(id)
       IN  calls' =
             IF id = InvalidObjectId THEN AtOnce(req, 400, NoDoc)
             ELSE IF rel = NoDoc THEN AtOnce(req, 204, NoDoc)
             ELSE IF /\ rel.studentClerkId # uid
                     /\ rel.teacherClerkId # uid
             THEN AtOnce(req, 403, NoDoc)
             ELSE Await(req, "delete_one")
    /\ UNCHANGED <<relationships, verifier, collections, groups>>

\* relationships.py 206-212: the document is deleted; 404 when
\* deleted_count is 0.
DeleteOne(c) ==
    /\ Waiting(c, "delete_relationship", "delete_one")
    /\ LET id == c.a
       IN  IF FindRel(id) = NoDoc
           THEN /\ calls' = Resume(c, 404, NoDoc)
                /\ UNCHANGED relationships
           ELSE /\ relationships' = [relationships EXCEPT ![id] = Gone]
                /\ calls' = Resume(c, 204, NoDoc)
    /\ UNCHANGED <<verifier, collections, groups>>

\* The relationships a listing's query matches: by profile id and, when a
\* status is asked for, by status.
Listed(field, id, status) ==
    {i \in DOMAIN relationships :
        /\ relationships[i] # Gone
        /\ relationships[i][field] = id
        /\ status # NoStatus => relationships[i].status = status}

\* relationships.py 236-241 and 303-308: what the ownership check raises.
VerifyOwnership(profiles, id, uid) ==
    IF id \notin DOMAIN profiles THEN 404
    ELSE IF profiles[id] # uid THEN 403
    ELSE 0

\* relationships.py 285-287 and 342-344: the handler's only except clause
\* is `except Exception`, which answers 500 to whatever the body raised,
\* the HTTPException of the ownership check included.
ListingResponse(raised, listed) ==
    IF raised # 0
    THEN [status |-> 500, out |-> {}]
    ELSE [status |-> 200, out |-> listed]

\* relationships.py 231-287.  The profile collections do not change, so the
\* handler's one read of the relationships decides its response.
get_teacher_students(uid, tid, status) ==
    /\ Free
    /\ LET req == [route |-> "get_teacher_students", user_id |-> uid,
                   a |-> tid, b |-> status]
           r == ListingResponse(VerifyOwnership(TeacherProfiles, tid, uid),
                                Listed("teacherId", tid, status))
       IN  calls' = AtOnce(req, r.status, r.out)
    /\ UNCHANGED <<relationships, verifier, collections, groups>>

\* relationships.py 298-344.
get_student_teachers(uid, sid, status) ==
    /\ Free
    /\ LET req == [route |-> "get_student_teachers", user_id |-> uid,
                   a |-> sid, b |-> status]
           r == ListingResponse(VerifyOwnership(StudentProfiles, sid, uid),
                                Listed("studentId", sid, status))
       IN  calls' = AtOnce(req, r.status, r.out)
    /\ UNCHANGED <<relationships, verifier, collections, groups>>

\* The principals are the owner of the student profile, the owner of the
\* teacher profile and one who owns neither; S-9 and T-9 are the ids of no
\* profile.
NextRel ==
    \/ \E uid \in Subjects \cup {"user_13"} :
          \/ \E sid \in {"S-1", "S-9"}, tid \in {"T-1", "T-9"} :
                link_student_teacher(uid, sid, tid)
          \/ \E id \in 0..MaxRels, status \in {"active", "rejected"} :
                update_relationship_status(uid, id, status)
          \/ \E id \in 0..MaxRels : delete_relationship(uid, id)
          \/ \E tid \in {"T-1", "T-9"}, status \in {NoStatus, "active"} :
                get_teacher_students(uid, tid, status)
          \/ \E sid \in {"S-1", "S-9"}, status \in {NoStatus, "active"} :
                get_student_teachers(uid, sid, status)
    \/ \E c \in BagToSet(calls.waiting) :
          \/ LinkInsert(c)
          \/ UpdateSet(c)
          \/ DeleteOne(c)

SpecRel == Init /\ [][NextRel]_vars

----
\* The relationships.

\* The relationship found under id has a teacher other than uid.
NotTeacherOf(id, uid) ==
    /\ FindRel(id) # NoDoc
    /\ FindRel(id).teacherClerkId # uid

C25_Protocol ==
    \* Who waits to insert a link owns its student profile.
    /\ \A c \in BagToSet(calls.waiting) :
          c.route = "link_student_teacher"
              => c.user_id = StudentProfiles[c.a]
    \* Who waits to set a status is the teacher of the relationship.
    /\ \A c \in BagToSet(calls.waiting) :
          c.route = "update_relationship_status" => ~NotTeacherOf(c.a, c.user_id)
    \* An update asked for by anyone else was answered 403.
    /\ (/\ calls.last.route = "update_relationship_status"
        /\ NotTeacherOf(calls.last.a, calls.last.user_id))
           => calls.last.status = 403

C25_Step ==
    /\ \A i \in DOMAIN relationships' :
          IF i \notin DOMAIN relationships
          THEN \* created pending, by link_student_teacher for the owner of
               \* the student profile
               /\ relationships'[i].status = "pending"
               /\ calls'.last.route = "link_student_teacher"
               /\ calls'.last.status = 200
               /\ calls'.last.user_id
                      = StudentProfiles[relationships'[i].studentId]
          ELSE (/\ relationships[i] # Gone
                /\ relationships'[i] # Gone
                /\ relationships'[i] # relationships[i])
                  => \* changed in its status alone, by
                     \* update_relationship_status for its teacher
                     /\ relationships'[i]
                           = [relationships[i] EXCEPT
                                 !.status = calls'.last.b]
                     /\ calls'.last.route = "update_relationship_status"
                     /\ calls'.last.a = i
                     /\ calls'.last.status = 200
                     /\ calls'.last.user_id = relationships[i].teacherClerkId
    \* A step that answers 403 changes no relationship.
    /\ calls'.last.status = 403 => relationships' = relationships

\* C25: a relationship is created with status pending by
\* link_student_teacher called by the owner of the student profile; its
\* status changes only by update_relationship_status called by its
\* teacherClerkId; an update asked for by any other principal is answered
\* 403 and changes nothing.
C25_StatusProtocol == []C25_Protocol /\ [][C25_Step]_vars

\* A relationship made active by its teacher after the student, who is not
\* the teacher, was refused.
C25_Witness ==
    /\ \E i \in DOMAIN relationships :
          /\ relationships[i] # Gone
          /\ relationships[i].status = "active"
    /\ calls.last.route = "update_relationship_status"
    /\ calls.last.status = 403
    /\ NotTeacherOf(calls.last.a, calls.last.user_id)

\* The two listings.
Listings == {"get_teacher_students", "get_student_teachers"}
ProfilesOf(route) ==
    IF route = "get_teacher_students" THEN TeacherProfiles ELSE StudentProfiles

\* C26, as claimed: a listing answers 404 for a profile that does not
\* exist and 403 to a principal who does not own it; the data store does
\* not fail here, so no listing answers 500.
C26_ListingErrors ==
    calls.last.route \in Listings =>
        /\ VerifyOwnership(ProfilesOf(calls.last.route), calls.last.a,
                           calls.last.user_id) # 0
              => calls.last.status
                     = VerifyOwnership(ProfilesOf(calls.last.route),
                                       calls.last.a, calls.last.user_id)
        /\ calls.last.status # 500

\* The parties of the relationships there can be.
Parties == {StudentProfiles[s] : s \in DOMAIN StudentProfiles}
               \cup {TeacherProfiles[t] : t \in DOMAIN TeacherProfiles}

\* C29, as claimed: a delete asked for by the student or the teacher is
\* answered 204, whatever other deletes run beside it, and never 404.
C29_DeleteIdempotent ==
    (/\ calls.last.route = "delete_relationship"
     /\ calls.last.a # InvalidObjectId
     /\ calls.last.user_id \in Parties)
        => calls.last.status = 204


----
\* groups.py.  Its handlers take no principal.  A group is kept under its
\* groupId with its students list; the place of a deleted group stays taken,
\* as a groupId is drawn afresh for every group.

\* set(list) and list(set); the set's order of iteration is the one CHOOSE
\* picks.
ToSet(list) == {list[i] : i \in DOMAIN list}
ToList(set) ==
    CHOOSE list \in [1..Cardinality(set) -> set] : ToSet(list) = set

\* db.groups.find_one({"groupId": gid}).
FindGroup(gid) ==
    IF gid \in DOMAIN groups /\ groups[gid] # Gone THEN groups[gid] ELSE NoDoc

\* A handler waits with the value of a local variable.
AwaitWith(req, label, local) ==
    [calls EXCEPT !.waiting =
        @ (+) SetToBag({[route |-> req.route, user_id |-> req.user_id,
                         a |-> req.a, b |-> req.b, pc |-> label,
                         local |-> local]})]

\* A waiting handler goes on to its next await.
Proceed(c, label) ==
    [calls EXCEPT !.waiting =
        (@ (-) SetToBag({c})) (+) SetToBag({[c EXCEPT !.pc = label]})]

\* groups.py 53-72: a group is made under a fresh groupId, with no students.
create_group(gid) ==
    /\ Free
    /\ gid \notin DOMAIN groups
    /\ groups' = [g \in DOMAIN groups \cup {gid} |->
                     IF g = gid THEN [students |-> <<>>] ELSE groups[g]]
    /\ calls' = AtOnce([route |-> "create_group", user_id |-> NoUser,
                        a |-> gid, b |-> NoStatus], 200, groups'[gid])
    /\ UNCHANGED <<verifier, collections, relationships>>

\* groups.py 134-140.
delete_group(gid) ==
    /\ Free
    /\ LET req == [route |-> "delete_group", user_id |-> NoUser, a |-> gid,
                   b |-> NoStatus]
       IN  IF FindGroup(gid) = NoDoc
           THEN /\ calls' = AtOnce(req, 404, NoDoc)
                /\ UNCHANGED groups
           ELSE /\ groups' = [groups EXCEPT ![gid] = Gone]
                /\ calls' = AtOnce(req, 200, NoDoc)
    /\ UNCHANGED <<verifier, collections, relationships>>

\* groups.py 95-105: the group is read (404) and the ids of the request are
\* added to a set made of the students read.
add_students_to_group(gid, studentIds) ==
    /\ Free
    /\ LET req == [route |-> "add_students_to_group", user_id |-> NoUser,
                   a |-> gid, b |-> studentIds]
           group == FindGroup(gid)
       IN  calls' =
             IF group = NoDoc THEN AtOnce(req, 404, NoDoc)
             ELSE AwaitWith(req, "update_one",
                            ToSet(group.students) \cup ToSet(studentIds))
    /\ UNCHANGED <<groups, verifier, collections, relationships>>

\* groups.py 107-110: the students list is set to the list of that set.
AddUpdateOne(c) ==
    /\ Waiting(c, "add_students_to_group", "update_one")
    /\ groups' = IF FindGroup(c.a) = NoDoc THEN groups
                 ELSE [groups EXCEPT ![c.a].students = ToList(c.local)]
    /\ calls' = Proceed(c, "find_one")
    /\ UNCHANGED <<verifier, collections, relationships>>

\* groups.py 119-123: the group is read (404).
remove_student_from_group(gid, student_id) ==
    /\ Free
    /\ LET req == [route |-> "remove_student_from_group", user_id |-> NoUser,
                   a |-> gid, b |-> student_id]
       IN  calls' =
             IF FindGroup(gid) = NoDoc THEN AtOnce(req, 404, NoDoc)
             ELSE AwaitWith(req, "update_one", {})
    /\ UNCHANGED <<groups, verifier, collections, relationships>>

\* groups.py 125-128: $pull takes every occurrence of the id from the list.
RemoveUpdateOne(c) ==
    /\ Waiting(c, "remove_student_from_group", "update_one")
    /\ groups' = IF FindGroup(c.a) = NoDoc THEN groups
                 ELSE [groups EXCEPT ![c.a].students =
                          SelectSeq(@, LAMBDA s : s # c.b)]
    /\ calls' = Proceed(c, "find_one")
    /\ UNCHANGED <<verifier, collections, relationships>>

\* groups.py 112-113 and 130-131: the group is read again and returned;
\* group_doc_to_response(None) raises a TypeError, answered 500.
ReturnUpdatedGroup(c) ==
    /\ BagIn(c, calls.waiting)
    /\ c.route \in {"add_students_to_group", "remove_student_from_group"}
    /\ c.pc = "find_one"
    /\ calls' = IF FindGroup(c.a) = NoDoc
                THEN Resume(c, 500, NoDoc)
                ELSE Resume(c, 200, FindGroup(c.a))
    /\ UNCHANGED <<groups, verifier, collections, relationships>>

NextGroups ==
    \/ \E gid \in {"G-1"} : create_group(gid)
    \/ \E gid \in {"G-1", "G-9"} :
          \/ delete_group(gid)
          \/ \E studentIds \in {<<"S-1">>, <<"S-2">>, <<"S-1", "S-1">>} :
                add_students_to_group(gid, studentIds)
          \/ \E student_id \in {"S-1", "S-2"} :
                remove_student_from_group(gid, student_id)
    \/ \E c \in BagToSet(calls.waiting) :
          \/ AddUpdateOne(c)
          \/ RemoveUpdateOne(c)
          \/ ReturnUpdatedGroup(c)

SpecGroups == Init /\ [][NextGroups]_vars

\* The students of the group gid, when it is there.
StudentsOf(gs, gid) ==
    IF gid \in DOMAIN gs /\ gs[gid] # Gone THEN ToSet(gs[gid].students) ELSE {}

\* C30, as claimed: no students list holds an id twice; an id leaves a
\* group's list only by a remove_student_from_group of that id; and a step
\* answering 404 changes no group.
C30_Step ==
    /\ \A gid \in DOMAIN groups' :
          groups'[gid] # Gone =>
              Cardinality(ToSet(groups'[gid].students))
                  = Len(groups'[gid].students)
    /\ \A gid \in DOMAIN groups :
          groups'[gid] # Gone =>
              \A s \in StudentsOf(groups, gid) \ StudentsOf(groups', gid) :
                  \E c \in BagToSet(calls.waiting) :
                      /\ Waiting(c, "remove_student_from_group", "update_one")
                      /\ c.a = gid
                      /\ c.b = s
                      /\ calls' = Proceed(c, "find_one")
    /\ (calls'.last # calls.last /\ calls'.last.status = 404)
          => groups' = groups

\* C30, as claimed, for every step.
C30_NoLostUpdate == [][C30_Step]_vars


----
\* review_cards.py, its two handlers that add, from one await to the next.
\* A review card is kept with the _id the insert gave it.

MaxReviewCards == 3
\* collection.find_one({"userId": uid, "cardId": cardId}): one of the
\* documents the filter matches, or none.
FindCards(coll, uid, cardId) ==
    {d \in coll : d.userId = uid /\ d.cardId = cardId}

\* collection.insert_one(doc): the document gets an _id of its own.
InsertOne(coll, uid, cardId) ==
    coll \cup {[_id |-> Cardinality(coll) + 1, userId |-> uid,
                cardId |-> cardId]}

\* review_cards.py 92-107: the card is looked up under the principal and
\* returned when it is there.
AddReviewCard(uid, cardId) ==
    /\ Free
    /\ LET req == [route |-> "add_review_card", user_id |-> uid,
                   a |-> cardId, b |-> NoStatus]
       IN  \/ /\ FindCards(review_cards, uid, cardId) = {}
              /\ calls' = Await(req, "insert_one")
           \/ \E existing \in FindCards(review_cards, uid, cardId) :
                 calls' = AtOnce(req, 200,
                                 [message |-> "Card already bookmarked",
                                  card |-> existing])
    /\ UNCHANGED <<review_cards, verifier, learned_cards, relationships, groups>>

\* review_cards.py 109-126: the card is inserted.
AddInsertOne(c) ==
    /\ Waiting(c, "add_review_card", "insert_one")
    /\ Cardinality(review_cards) < MaxReviewCards
    /\ review_cards' = InsertOne(review_cards, c.user_id, c.a)
    /\ calls' = Resume(c, 200, [message |-> "Card added to review",
                                card |-> CHOOSE d \in review_cards' :
                                            d \notin review_cards])
    /\ UNCHANGED <<verifier, learned_cards, relationships, groups>>

\* review_cards.py 233-240: the loop over the cards of the body begins.
BulkAddReviewCards(uid, cards) ==
    /\ Free
    /\ calls' = AwaitWith([route |-> "bulk_add_review_cards",
                           user_id |-> uid, a |-> cards, b |-> NoStatus],
                          "find_one",
                          [i |-> 1, added_count |-> 0, skipped_count |-> 0])
    /\ UNCHANGED <<review_cards, verifier, learned_cards, relationships, groups>>

\* The loop goes on to its next card, or the handler returns its counts.
NextCard(c, added, skipped) ==
    IF c.local.i = Len(c.a)
    THEN Resume(c, 200, [addedCount |-> c.local.added_count + added,
                         skippedCount |-> c.local.skipped_count + skipped,
                         totalProcessed |-> Len(c.a)])
    ELSE [calls EXCEPT !.waiting =
            (@ (-) SetToBag({c})) (+)
            SetToBag({[c EXCEPT
                !.pc = "find_one",
                !.local = [i |-> c.local.i + 1,
                           added_count |-> c.local.added_count + added,
                           skipped_count |-> c.local.skipped_count + skipped]]})]

\* review_cards.py 245-252: the card is looked up; one that is there is
\* skipped.
BulkFindOne(c) ==
    /\ Waiting(c, "bulk_add_review_cards", "find_one")
    /\ calls' = IF FindCards(review_cards, c.user_id, c.a[c.local.i]) # {}
                THEN NextCard(c, 0, 1)
                ELSE Proceed(c, "insert_one")
    /\ UNCHANGED <<review_cards, verifier, learned_cards, relationships, groups>>

\* review_cards.py 254-266: the card is inserted.
BulkInsertOne(c) ==
    /\ Waiting(c, "bulk_add_review_cards", "insert_one")
    /\ Cardinality(review_cards) < MaxReviewCards
    /\ review_cards' = InsertOne(review_cards, c.user_id, c.a[c.local.i])
    /\ calls' = NextCard(c, 1, 0)
    /\ UNCHANGED <<verifier, learned_cards, relationships, groups>>

NextReview ==
    \/ \E uid \in Subjects :
          \/ \E cardId \in CardIds : AddReviewCard(uid, cardId)
          \/ \E cards \in {<<"c1">>, <<"c1", "c2">>} : BulkAddReviewCards(uid, cards)
    \/ \E c \in BagToSet(calls.waiting) :
          \/ AddInsertOne(c)
          \/ BulkFindOne(c)
          \/ BulkInsertOne(c)

SpecReview == Init /\ [][NextReview]_vars

\* C22, as claimed: the review_cards collection never holds two documents
\* with one userId and cardId, whatever adds run beside each other.
C22_ReviewCardsUnique ==
    \A d, e \in review_cards :
        (d.userId = e.userId /\ d.cardId = e.cardId) => d = e


----
\* progress.py, one request at a time: save_progress, get_lesson_progress,
\* get_wordlist and reset_lesson_progress with the fields of the documents
\* they write and filter on.  datetime.utcnow() is the clock, now.

Learners == {"user_42"}
\* str.upper() on a level.
Upper(level) == IF level = "a1" THEN "A1" ELSE level

\* What a save_progress body says of its lesson and of each of its cards.
Lessons ==
    {[level |-> "a1", category |-> "food"],
     [level |-> "A1", category |-> "travel"]}
CardLists ==
    {<<[cardId |-> "c1", status |-> "known", cardData |-> "v1"]>>,
     <<[cardId |-> "c1", status |-> "mastered", cardData |-> "v2"],
       [cardId |-> "c2", status |-> "known", cardData |-> "v1"]>>}
Limits == {1, 2}

\* An upsert whose $set holds learnedAt as well.
UpdateOneUpsert_SetLearnedAt(coll, uid, lesson, card, t) ==
    {d \in coll : ~(d.userId = uid /\ d.cardId = card.cardId)}
        \cup {[userId |-> uid, cardId |-> card.cardId,
               level |-> lesson.level, category |-> lesson.category,
               status |-> card.status, cardData |-> card.cardData,
               lastViewedAt |-> t, learnedAt |-> t]}

\* progress.py 92-110: update_one with upsert=True.  A document the filter
\* matches gets the fields of $set; when there is none, one is inserted
\* with the fields of the filter, of $set and of $setOnInsert.
UpdateOneUpsert(coll, uid, lesson, card, t) ==
    LET matched == {d \in coll : d.userId = uid /\ d.cardId = card.cardId}
        one == CHOOSE d \in matched : TRUE
    IN  IF matched = {}
        THEN coll \cup {[userId |-> uid, cardId |-> card.cardId,
                         level |-> lesson.level, category |-> lesson.category,
                         status |-> card.status, cardData |-> card.cardData,
                         lastViewedAt |-> t, learnedAt |-> t]}
        ELSE (coll \ {one})
                 \cup {[one EXCEPT !.level = lesson.level,
                                   !.category = lesson.category,
                                   !.status = card.status,
                                   !.cardData = card.cardData,
                                   !.lastViewedAt = t]}

\* progress.py 87-115: the loop over the cards of the body, from card i on:
\* the collection and the two counts it ends with.
RECURSIVE SaveCards(_, _, _, _, _, _)
SaveCards(acc, uid, lesson, cards, t, i) ==
    IF i > Len(cards) THEN acc
    ELSE LET upserted ==
                 \A d \in acc.coll :
                     ~(d.userId = uid /\ d.cardId = cards[i].cardId)
         IN  SaveCards(
                 [coll |-> UpdateOneUpsert(acc.coll, uid, lesson, cards[i], t),
                  saved_count |-> acc.saved_count + IF upserted THEN 1 ELSE 0,
                  updated_count |->
                      acc.updated_count + IF upserted THEN 0 ELSE 1],
                 uid, lesson, cards, t, i + 1)

\* progress.py 69-123.
SaveProgress(uid, lesson, cards) ==
    LET end == SaveCards([coll |-> learned_cards, saved_count |-> 0,
                          updated_count |-> 0], uid, lesson, cards, now, 1)
    IN  /\ learned_cards' = end.coll
        /\ calls' = AtOnce([route |-> "save_progress", user_id |-> uid,
                            a |-> lesson, b |-> cards], 200,
                           [savedCount |-> end.saved_count,
                            updatedCount |-> end.updated_count,
                            totalCards |-> Len(cards)])
        /\ UNCHANGED <<verifier, review_cards, relationships, groups>>

\* progress.py 146-150, 239-243: the filter of a lesson's documents.
LessonFilter(uid, level, category) ==
    {d \in learned_cards :
        d.userId = uid /\ d.level = Upper(level) /\ d.category = category}

\* progress.py 130-170.
GetLessonProgress(uid, level, category) ==
    /\ calls' = AtOnce([route |-> "get_lesson_progress", user_id |-> uid,
                        a |-> level, b |-> category], 200,
                       [level |-> Upper(level), category |-> category,
                        learnedCount |->
                            Cardinality(LessonFilter(uid, level, category)),
                        learnedCardIds |->
                            {d.cardId : d \in LessonFilter(uid, level,
                                                           category)}])
    /\ UNCHANGED <<verifier, collections, relationships, groups>>

\* progress.py 224-249.
ResetLessonProgress(uid, level, category) ==
    /\ learned_cards' = learned_cards \ LessonFilter(uid, level, category)
    /\ calls' = AtOnce([route |-> "reset_lesson_progress", user_id |-> uid,
                        a |-> level, b |-> category], 200,
                       [deletedCount |->
                            Cardinality(LessonFilter(uid, level, category))])
    /\ UNCHANGED <<verifier, review_cards, relationships, groups>>

\* datetime.isoformat() and datetime.fromisoformat().
NoCursor == <<>>
IsoFormat(t) == <<"T", t>>
FromIsoFormat(cursor) == cursor[2]

\* find(query).sort("learnedAt", -1): the documents newest first, those of
\* one learnedAt in the order CHOOSE picks.
SortedNewestFirst(docs) ==
    CHOOSE list \in [1..Cardinality(docs) -> docs] :
        /\ ToSet(list) = docs
        /\ \A i, j \in DOMAIN list :
              i < j => list[i].learnedAt >= list[j].learnedAt

\* progress.py 192-215: one page of the wordlist.
WordlistPage(coll, uid, cursor, limit) ==
    LET query == {d \in coll :
                     /\ d.userId = uid
                     /\ cursor # NoCursor
                            => d.learnedAt < FromIsoFormat(cursor)}
        found == SubSeq(SortedNewestFirst(query), 1,
                        IF Cardinality(query) > limit + 1
                        THEN limit + 1 ELSE Cardinality(query))
        has_more == Len(found) > limit
        cards == IF has_more THEN SubSeq(found, 1, limit) ELSE found
    IN  [cards |-> cards,
         nextCursor |-> IF has_more /\ cards # <<>>
                        THEN IsoFormat(cards[Len(cards)].learnedAt)
                        ELSE NoCursor,
         hasMore |-> has_more,
         count |-> Len(cards)]

\* progress.py 177-221.
GetWordlist(uid, limit, cursor) ==
    /\ calls' = AtOnce([route |-> "get_wordlist", user_id |-> uid,
                        a |-> limit, b |-> cursor], 200,
                       WordlistPage(learned_cards, uid, cursor, limit))
    /\ UNCHANGED <<verifier, collections, relationships, groups>>

NextProgress ==
    \/ \E uid \in Learners :
          \/ \E lesson \in Lessons, cards \in CardLists :
                SaveProgress(uid, lesson, cards)
          \/ \E level \in {"a1", "A1"},
                category \in {l.category : l \in Lessons} :
                \/ GetLessonProgress(uid, level, category)
                \/ ResetLessonProgress(uid, level, category)
          \/ \E limit \in Limits,
                cursor \in {NoCursor} \cup {IsoFormat(t) : t \in 0..MaxTime} :
                GetWordlist(uid, limit, cursor)
    \* another principal saves one card of its own
    \/ \E lesson \in Lessons, cards \in CardLists :
          /\ Len(cards) = 1
          /\ lesson.level = "A1"
          /\ SaveProgress("user_7", lesson, cards)
    \/ Tick

SpecProgress == Init /\ [][NextProgress]_vars


\* The documents kept for one userId and cardId.
SameCard(d, e) == d.userId = e.userId /\ d.cardId = e.cardId

C21_Upserted ==
    /\ \A d, e \in learned_cards : SameCard(d, e) => d = e
    /\ calls.last.route = "save_progress"
          => calls.last.out.savedCount + calls.last.out.updatedCount
                 = calls.last.out.totalCards

C21_Step ==
    \* learnedAt stays as the first save set it
    /\ \A d \in learned_cards, e \in learned_cards' :
          SameCard(d, e) => (e.learnedAt = d.learnedAt /\ e.userId = d.userId
                             /\ e.cardId = d.cardId)
    \* a save keeps every card, and a card it wrote has the lesson of its
    \* body and lastViewedAt now
    /\ calls'.last.route = "save_progress" =>
          /\ \A d \in learned_cards : \E e \in learned_cards' : SameCard(d, e)
          /\ \A e \in learned_cards' \ learned_cards :
                /\ e.lastViewedAt = now
                /\ e.level = calls'.last.a.level
                /\ e.category = calls'.last.a.category
                /\ \E i \in DOMAIN calls'.last.b :
                      /\ calls'.last.b[i].cardId = e.cardId
                      /\ calls'.last.b[i].status = e.status
                      /\ calls'.last.b[i].cardData = e.cardData

\* C21: learned_cards holds at most one document for a userId and cardId;
\* a save of a card that is there keeps its learnedAt and sets
\* lastViewedAt, status, level, category and cardData; savedCount and
\* updatedCount add up to totalCards in every response of save_progress.
C21_SaveProgressUpserts == []C21_Upserted /\ [][C21_Step]_vars

\* A card saved again at a later time, under another lesson: the response
\* counts it as updated and its learnedAt is the earlier time.
C21_Witness ==
    /\ calls.last.route = "save_progress"
    /\ calls.last.out.updatedCount > 0
    /\ calls.last.out.savedCount > 0
    /\ \E d \in learned_cards :
          /\ d.userId = calls.last.user_id
          /\ d.learnedAt < d.lastViewedAt
          /\ d.lastViewedAt = now
          /\ d.level = calls.last.a.level

\* The pages a client gets that calls get_wordlist without a cursor and
\* then with every nextCursor until hasMore is false, put together.
RECURSIVE Pages(_, _, _, _)
Pages(coll, uid, cursor, limit) ==
    LET page == WordlistPage(coll, uid, cursor, limit)
    IN  IF page.hasMore
        THEN page.cards \o Pages(coll, uid, page.nextCursor, limit)
        ELSE page.cards

\* C23, as claimed: for every limit, the pages hold every stored card of
\* the user exactly once, newest first.
C23_PagesComplete ==
    \A uid \in Learners, limit \in Limits :
        LET all == Pages(learned_cards, uid, NoCursor, limit)
        IN  /\ ToSet(all) = {d \in learned_cards : d.userId = uid}
            /\ Len(all) = Cardinality(ToSet(all))
            /\ \A i, j \in DOMAIN all :
                  i < j => all[i].learnedAt >= all[j].learnedAt

\* C24, as claimed: get_lesson_progress with a level and category returns
\* the cardId of every card the user has stored under them, and counts
\* them; reset_lesson_progress leaves none of them.
C24_LessonRoundTrip ==
    LET stored == {d \in learned_cards :
                      /\ d.userId = calls.last.user_id
                      /\ d.level = calls.last.a
                      /\ d.category = calls.last.b}
    IN  /\ calls.last.route = "get_lesson_progress"
            => /\ {d.cardId : d \in stored} \subseteq
                      calls.last.out.learnedCardIds
               /\ calls.last.out.learnedCount >= Cardinality(stored)
        /\ calls.last.route = "reset_lesson_progress" => stored = {}

====
